---- MODULE Spec2Model ----
(***************************************************************************)
(* Charging-station controller (src/charging-station/read_rfid.py) and its *)
(* pricing functions (src/charging-station/pricing_calculator.py).         *)
(*                                                                         *)
(* Three specifications share this module:                                 *)
(*   Spec         the controller's main loop, one step per block of        *)
(*                set_charging_state / toggle_relay / the finally clause;  *)
(*   SpecPricing  the pure cost functions applied to bounded inputs;       *)
(*   SpecFanOut   the thread pool of set_charging_state's plan-option      *)
(*                fan-out, applied to lists of option identifiers.         *)
(*                                                                         *)
(* Numbers.  Python floats are modelled as exact fixed-point rationals:    *)
(* a quantity (seconds, minutes, hours, tier sizes) is an integer count of *)
(* 1/3600 units, so that seconds/60 and seconds/3600 are exact; a price is *)
(* an integer number of cents; a cost is quantity * price, i.e. a count of *)
(* 1/3600 cent.  IEEE rounding is not modelled.                            *)
(***************************************************************************)
EXTENDS Integers, Sequences, FiniteSets, TLC

VARIABLES
    \* ---- controller: module-level state of read_rfid.py
    pc,                       \* position of the main loop
    charging_active,          \* read_rfid.py:31
    charging_session_start,   \* read_rfid.py:32
    all_stored_plan_options,  \* read_rfid.py:35
    last_tag_id,              \* read_rfid.py:50
    last_read_time,           \* read_rfid.py:51
    display,                  \* read_rfid.py:42-47  (TRUE: a ChargingDisplay, FALSE: None)
    relay,                    \* level of RELAY_PIN
    now,                      \* the clock read by time.time() / datetime.now()
    \* ---- controller: locals of the credential being handled
    customer_info,            \* read_rfid.py:587
    charging_end_time,        \* read_rfid.py:429
    cost,                     \* read_rfid.py:448/451
    \* ---- controller: observation of the run (not program state)
    transition,               \* which branch of set_charging_state the handling took
    trace,                    \* the steps of the current handling, in order
    emit_failed,              \* the dispatch of charging_finished raised
    usage_success,            \* result of create_nitrobox_usage in this handling
    exit_cause,               \* why the main loop was left
    openSessions,             \* sessions opened and not yet cleared
    bearer_token,             \* bearer_token of set_charging_state in this handling
    usage_record,             \* the usage the backend received in this handling
    \* ---- pricing functions: inputs and results
    p_op,                     \* which function was applied last
    p_start, p_end,           \* datetimes, seconds since midnight of day 0
    p_plan,                   \* a plan option (dict)
    p_units,                  \* total_units handed to calculate_tiered_cost
    p_tiers,                  \* price_tiers handed to calculate_tiered_cost
    p_cost_tiered,            \* pricing_calculator.calculate_tiered_cost
    p_cost_pricing,           \* pricing_calculator.calculate_single_plan_cost
    p_cost_controller,        \* read_rfid.calculate_single_plan_cost
    p_all,                    \* all_plan_options, a list of (option_ident, plan_options)
    p_resolved,               \* pricing_calculator.get_current_time_based_pricing
    p_total_pricing,          \* pricing_calculator.calculate_total_charging_cost
    p_total_controller,       \* read_rfid.calculate_total_charging_cost
    p_display,                \* the options display_sequential_pricing selects
    \* ---- the plan-option fan-out of set_charging_state (read_rfid.py:517-547)
    f_pc,                     \* position of the main thread
    f_option_idents,          \* option_idents, the identifiers of the contract
    f_failing,                \* the identifiers whose backend request fails
    f_future,                 \* the state of each submitted future
    f_all_plan_options,       \* all_plan_options, in the order of collection
    f_stored,                 \* all_stored_plan_options after line 546
    f_total,                  \* the total the close computes from f_stored
    \* ---- the PDF download service (pdf-viewer-kiosk/app.py)
    d_pc,                     \* position of each background task
    d_document_ident,         \* document_ident of each background task
    d_files,                  \* the PDF files in DOWNLOAD_DIR
    d_latest,                 \* the newest document of the customer at the backend
    d_clock                   \* datetime.utcnow(), in seconds

ctlVars == <<pc, charging_active, charging_session_start, all_stored_plan_options,
             last_tag_id, last_read_time, display, relay, now, customer_info,
             charging_end_time, cost, transition, trace, emit_failed, usage_success,
             exit_cause, openSessions, bearer_token, usage_record>>

priceInputs == <<p_op, p_start, p_end, p_plan, p_units, p_tiers, p_all>>

priceResults == <<p_cost_tiered, p_cost_pricing, p_cost_controller, p_resolved,
                  p_total_pricing, p_total_controller, p_display>>

priceVars == <<priceInputs, priceResults>>

fanVars == <<f_pc, f_option_idents, f_failing, f_future, f_all_plan_options,
             f_stored, f_total>>

dlVars == <<d_pc, d_document_ident, d_files, d_latest, d_clock>>

vars == <<ctlVars, priceVars, fanVars, dlVars>>

-----------------------------------------------------------------------------
(* Bounds of the model *)

\* the clock runs from 0 to MaxTime seconds
MaxTime == 6

\* calculate_tiered_cost is applied to 0 .. MaxUnits whole units
MaxUnits == 16

\* sessions of the pricing specification last 0 .. MaxUnits seconds, or
\* 1 .. MaxDuration steps of DurationStep seconds
MaxDuration == 4

\* calculate_total_charging_cost is applied to lists of 0 .. MaxPlans options
MaxPlans == 3

\* the fan-out is run on 1 .. MaxOptions option identifiers
MaxOptions == 6

DurationStep == 300

\* the concurrent background tasks of the download service
MaxTasks == 2

\* the documents the backend holds for the customer
MaxDocuments == 2

\* the seconds the download service is observed
MaxClock == 2

-----------------------------------------------------------------------------
(* Program constants *)

\* Python's None, for the optional timestamps and costs
None == -1

DEBOUNCE_TIME == 2

SecondsPerMinute == 60

SecondsPerHour == 3600

\* fixed-point: one unit is Denominator parts
Denominator == SecondsPerHour

Num(n) == n * Denominator

Min(a, b) == IF a <= b THEN a ELSE b

-----------------------------------------------------------------------------
(* Values of the pricing functions *)

\* a wall-clock string "HH:MM:SS" of the backend's JSON, as its three fields
HMS(h, m, s) == <<h, m, s>>

\* a datetime, in seconds since midnight of day 0
At(h, m, s) == h * SecondsPerHour + m * SecondsPerMinute + s

\* map(int, s.split(":")[0:2]) and hour * 60 + minute
ParseTotalMinutes(str) == str[1] * 60 + str[2]

\* datetime.time().hour * 60 + datetime.time().minute
TimeOfDayMinutes(t) == ((t \div SecondsPerHour) % 24) * 60 + ((t \div SecondsPerMinute) % 60)

UpperAlphabet == <<"A","B","C","D","E","F","G","H","I","J","K","L","M",
                   "N","O","P","Q","R","S","T","U","V","W","X","Y","Z">>

LowerAlphabet == <<"a","b","c","d","e","f","g","h","i","j","k","l","m",
                   "n","o","p","q","r","s","t","u","v","w","x","y","z">>

\* str.lower(), on a string given as the sequence of its characters
lower(s) ==
    [i \in 1..Len(s) |->
        IF \E k \in 1..Len(UpperAlphabet) : UpperAlphabet[k] = s[i]
        THEN LowerAlphabet[CHOOSE k \in 1..Len(UpperAlphabet) : UpperAlphabet[k] = s[i]]
        ELSE s[i]]

\* Python's `sub in s` on strings
Contains(s, sub) ==
    \E i \in 1..(Len(s) - Len(sub) + 1) : SubSeq(s, i, i + Len(sub) - 1) = sub

\* quantity_type.upper(), on the spellings the model draws
upper(q) ==
    CASE q = "second" -> "SECOND"
      [] q = "minute" -> "MINUTE"
      [] q = "hour"   -> "HOUR"
      [] OTHER        -> q

\* dict.get(key, default) on a plan option; plan.keys is the set of keys present
Get(plan, key, default) == IF key \in plan.keys THEN plan[key] ELSE default

\* the chain with every quantity type taken as seconds (a faulty variant)
DurationUnits_seconds(quantity_type, duration_seconds) == Num(duration_seconds)

\* the duration in the plan's unit (fixed-point), the if/elif chain on quantity_type
DurationUnits(quantity_type, duration_seconds) ==
    CASE upper(quantity_type) = "SECOND" -> Num(duration_seconds)
      [] upper(quantity_type) = "MINUTE" -> Num(duration_seconds) \div SecondsPerMinute
      [] upper(quantity_type) = "HOUR"   -> Num(duration_seconds) \div SecondsPerHour
      [] OTHER                           -> Num(duration_seconds)

\* a rule compared as a normal period whatever its ends (a faulty variant)
RuleMatches_no_wrap(rule, temp_total_minutes) ==
    /\ ParseTotalMinutes(rule.start) <= temp_total_minutes
    /\ temp_total_minutes < ParseTotalMinutes(rule.end)

\* one pricing rule against a time of day, in minutes since midnight
RuleMatches(rule, temp_total_minutes) ==
    LET rule_start_total_minutes == ParseTotalMinutes(rule.start)
        rule_end_total_minutes   == ParseTotalMinutes(rule.end)
    IN  IF rule_start_total_minutes <= rule_end_total_minutes
        THEN rule_start_total_minutes <= temp_total_minutes
             /\ temp_total_minutes < rule_end_total_minutes
        ELSE temp_total_minutes >= rule_start_total_minutes
             \/ temp_total_minutes < rule_end_total_minutes

\* the loop over the rules without its break: the last matching rule's
\* amount (a faulty variant)
RECURSIVE LastMatchingPrice(_, _, _)
LastMatchingPrice(pricing_rules, i, temp_total_minutes) ==
    IF i > Len(pricing_rules) THEN 0
    ELSE IF \E k \in (i + 1)..Len(pricing_rules) :
                RuleMatches(pricing_rules[k], temp_total_minutes)
         THEN LastMatchingPrice(pricing_rules, i + 1, temp_total_minutes)
         ELSE IF RuleMatches(pricing_rules[i], temp_total_minutes)
              THEN pricing_rules[i].amount
              ELSE 0

\* the for/break loop over the rules: the first matching rule's amount, else 0.0
RECURSIVE FirstMatchingPrice(_, _, _)
FirstMatchingPrice(pricing_rules, i, temp_total_minutes) ==
    IF i > Len(pricing_rules) THEN 0
    ELSE IF RuleMatches(pricing_rules[i], temp_total_minutes)
         THEN pricing_rules[i].amount
         ELSE FirstMatchingPrice(pricing_rules, i + 1, temp_total_minutes)

\* the loop of calculate_tiered_cost with lines 129-133 left out (a faulty variant)
RECURSIVE TieredLoopNoRemainder(_, _, _, _)
TieredLoopNoRemainder(price_tiers, i, remaining_units, total_cost) ==
    IF i > Len(price_tiers) \/ remaining_units <= 0 THEN total_cost
    ELSE LET units_in_this_tier == Min(remaining_units, price_tiers[i].quantity)
         IN  TieredLoopNoRemainder(price_tiers, i + 1,
                                   remaining_units - units_in_this_tier,
                                   total_cost + units_in_this_tier * price_tiers[i].price)

\* the for loop of calculate_tiered_cost, from tier i on
RECURSIVE TieredLoop(_, _, _, _)
TieredLoop(price_tiers, i, remaining_units, total_cost) ==
    IF i > Len(price_tiers) \/ remaining_units <= 0 THEN total_cost
    ELSE LET tier_quantity      == price_tiers[i].quantity
             tier_price         == price_tiers[i].price
             units_in_this_tier == Min(remaining_units, tier_quantity)
             cost1              == total_cost + units_in_this_tier * tier_price
             remaining1         == remaining_units - units_in_this_tier
         IN  IF i = Len(price_tiers) /\ remaining1 > 0
             THEN cost1 + remaining1 * tier_price
             ELSE TieredLoop(price_tiers, i + 1, remaining1, cost1)

\* the loop with `total_cost = tier_cost` for `total_cost += tier_cost`
\* (a faulty variant)
RECURSIVE TieredLoopOverwrite(_, _, _, _)
TieredLoopOverwrite(price_tiers, i, remaining_units, total_cost) ==
    IF i > Len(price_tiers) \/ remaining_units <= 0 THEN total_cost
    ELSE LET tier_price         == price_tiers[i].price
             units_in_this_tier == Min(remaining_units, price_tiers[i].quantity)
             cost1              == units_in_this_tier * tier_price
             remaining1         == remaining_units - units_in_this_tier
         IN  IF i = Len(price_tiers) /\ remaining1 > 0
             THEN cost1 + remaining1 * tier_price
             ELSE TieredLoopOverwrite(price_tiers, i + 1, remaining1, cost1)

\* calculate_tiered_cost over the overwriting loop
calculate_tiered_cost_overwrite(total_units, price_tiers) ==
    IF price_tiers = <<>> THEN 0 ELSE TieredLoopOverwrite(price_tiers, 1, total_units, 0)

\* calculate_tiered_cost over the faulty loop
calculate_tiered_cost_no_remainder(total_units, price_tiers) ==
    IF price_tiers = <<>> THEN 0 ELSE TieredLoopNoRemainder(price_tiers, 1, total_units, 0)

\* pricing_calculator.calculate_tiered_cost
calculate_tiered_cost(total_units, price_tiers) ==
    IF price_tiers = <<>> THEN 0 ELSE TieredLoop(price_tiers, 1, total_units, 0)

\* pricing_calculator.calculate_single_plan_cost
pricing_calculate_single_plan_cost(start_time, end_time, plan_options) ==
    IF plan_options.keys = {} THEN 0
    ELSE IF "pricingGroups" \in plan_options.keys
    THEN LET price_per_unit ==
                 FirstMatchingPrice(plan_options.pricingRules, 1, TimeOfDayMinutes(start_time))
             duration_units ==
                 DurationUnits(Get(plan_options, "quantityType", "MINUTE"), end_time - start_time)
         IN  duration_units * price_per_unit
    ELSE IF "priceTiers" \in plan_options.keys
    THEN LET total_units ==
                 DurationUnits(Get(plan_options, "quantityType", "SECOND"), end_time - start_time)
         IN  calculate_tiered_cost(total_units, plan_options.priceTiers)
    ELSE 0

\* read_rfid.calculate_single_plan_cost
calculate_single_plan_cost(start_time, end_time, plan_options) ==
    IF plan_options.keys = {} THEN 0
    ELSE IF "pricingGroups" \in plan_options.keys
    THEN LET price_per_unit ==
                 FirstMatchingPrice(plan_options.pricingRules, 1, TimeOfDayMinutes(start_time))
             duration_units ==
                 DurationUnits(Get(plan_options, "quantityType", "MINUTE"), end_time - start_time)
         IN  duration_units * price_per_unit
    ELSE IF "priceTiers" \in plan_options.keys
    THEN LET price_tiers    == plan_options.priceTiers
             price_per_unit == IF price_tiers # <<>> THEN price_tiers[Len(price_tiers)].price ELSE 0
             duration_units ==
                 DurationUnits(Get(plan_options, "quantityType", "SECOND"), end_time - start_time)
         IN  duration_units * price_per_unit
    ELSE 0

\* the for loop of read_rfid.calculate_total_charging_cost: <<blocking_cost, charging_cost>>
RECURSIVE TotalLoop(_, _, _, _, _)
TotalLoop(start_time, end_time, all_plan_options, i, costs) ==
    IF i > Len(all_plan_options) THEN costs
    ELSE LET plan_options == all_plan_options[i][2]
             option_name  == lower(Get(plan_options, "optionName", <<>>))
             plan_cost    == calculate_single_plan_cost(start_time, end_time, plan_options)
         IN  IF Contains(option_name, <<"b","l","o","c","k","i","n","g">>)
             THEN TotalLoop(start_time, end_time, all_plan_options, i + 1, <<plan_cost, costs[2]>>)
             ELSE IF Contains(option_name, <<"c","h","a","r","g","i","n","g">>)
             THEN TotalLoop(start_time, end_time, all_plan_options, i + 1, <<costs[1], plan_cost>>)
             ELSE TotalLoop(start_time, end_time, all_plan_options, i + 1, costs)

\* read_rfid.calculate_total_charging_cost
calculate_total_charging_cost(start_time, end_time, all_plan_options) ==
    LET costs == TotalLoop(start_time, end_time, all_plan_options, 1, <<0, 0>>)
    IN  costs[1] + costs[2]

\* the for loop with += in place of = for both classes (a faulty variant)
RECURSIVE pricing_TotalLoop_summing(_, _, _, _, _)
pricing_TotalLoop_summing(start_time, end_time, all_plan_options, i, costs) ==
    IF i > Len(all_plan_options) THEN costs
    ELSE LET plan_options == all_plan_options[i][2]
             option_name  == lower(Get(plan_options, "optionName", <<>>))
             plan_cost    == pricing_calculate_single_plan_cost(start_time, end_time,
                                                                plan_options)
         IN  IF Contains(option_name, <<"b","l","o","c","k","i","n","g">>)
             THEN pricing_TotalLoop_summing(start_time, end_time, all_plan_options, i + 1,
                                            <<costs[1] + plan_cost, costs[2]>>)
             ELSE IF Contains(option_name, <<"c","h","a","r","g","i","n","g">>)
             THEN pricing_TotalLoop_summing(start_time, end_time, all_plan_options, i + 1,
                                            <<costs[1], costs[2] + plan_cost>>)
             ELSE pricing_TotalLoop_summing(start_time, end_time, all_plan_options, i + 1,
                                            costs)

\* the for loop of pricing_calculator.calculate_total_charging_cost:
\* <<blocking_cost, charging_cost>>
RECURSIVE pricing_TotalLoop(_, _, _, _, _)
pricing_TotalLoop(start_time, end_time, all_plan_options, i, costs) ==
    IF i > Len(all_plan_options) THEN costs
    ELSE LET plan_options == all_plan_options[i][2]
             option_name  == lower(Get(plan_options, "optionName", <<>>))
             plan_cost    == pricing_calculate_single_plan_cost(start_time, end_time,
                                                                plan_options)
         IN  IF Contains(option_name, <<"b","l","o","c","k","i","n","g">>)
                \/ Contains(option_name,
                            <<"b","l","o","c","k","i","n","g","-","t","i","m","e">>)
             THEN pricing_TotalLoop(start_time, end_time, all_plan_options, i + 1,
                                    <<plan_cost, costs[2]>>)
             ELSE IF Contains(option_name, <<"c","h","a","r","g","i","n","g">>)
                     \/ Contains(option_name,
                                 <<"c","h","a","r","g","i","n","g","-","t","i","m","e">>)
             THEN pricing_TotalLoop(start_time, end_time, all_plan_options, i + 1,
                                    <<costs[1], plan_cost>>)
             ELSE pricing_TotalLoop(start_time, end_time, all_plan_options, i + 1, costs)

\* the total with the charging cost left out of the sum (a faulty variant)
pricing_calculate_total_charging_cost_blocking_only(start_time, end_time, all_plan_options) ==
    pricing_TotalLoop(start_time, end_time, all_plan_options, 1, <<0, 0>>)[1]

\* pricing_calculator.calculate_total_charging_cost
pricing_calculate_total_charging_cost(start_time, end_time, all_plan_options) ==
    LET costs == pricing_TotalLoop(start_time, end_time, all_plan_options, 1, <<0, 0>>)
    IN  costs[1] + costs[2]

\* the value of blocking_fee_option / charging_fee_option while it is None
NoOption == <<>>

\* `any(keyword in option_name or keyword in name for keyword in keywords)`
AnyKeyword(keywords, option_name, name) ==
    \E k \in 1..Len(keywords) :
        Contains(option_name, keywords[k]) \/ Contains(name, keywords[k])

\* the for loop of display_sequential_pricing:
\* <<blocking_fee_option, charging_fee_option>>
RECURSIVE DisplayLoop(_, _, _)
DisplayLoop(all_plan_options, i, options) ==
    IF i > Len(all_plan_options) THEN options
    ELSE LET plan_options == all_plan_options[i][2]
             option_name  == lower(Get(plan_options, "optionName", <<>>))
             name         == lower(Get(plan_options, "name", <<>>))
         IN  IF AnyKeyword(<< <<"b","l","o","c","k">>,
                              <<"b","l","o","c","k","i","n","g">> >>, option_name, name)
             THEN IF "pricingGroups" \in plan_options.keys
                  THEN DisplayLoop(all_plan_options, i + 1,
                                   <<all_plan_options[i], options[2]>>)
                  ELSE DisplayLoop(all_plan_options, i + 1, options)
             ELSE IF AnyKeyword(<< <<"c","h","a","r","g","i","n","g">> >>, option_name, name)
             THEN IF "priceTiers" \in plan_options.keys
                  THEN DisplayLoop(all_plan_options, i + 1,
                                   <<options[1], all_plan_options[i]>>)
                  ELSE DisplayLoop(all_plan_options, i + 1, options)
             ELSE DisplayLoop(all_plan_options, i + 1, options)

\* the options display_sequential_pricing selects before it shows them
display_sequential_pricing(all_plan_options) ==
    DisplayLoop(all_plan_options, 1, <<NoOption, NoOption>>)

\* get_current_time_based_pricing returning None
NoPricing == [amount |-> None, start |-> <<>>, end |-> <<>>, period_name |-> "None"]

\* the for loop of get_current_time_based_pricing, from rule i on
RECURSIVE CurrentPricingLoop(_, _, _)
CurrentPricingLoop(pricing_rules, i, current_total_minutes) ==
    IF i > Len(pricing_rules) THEN NoPricing
    ELSE LET rule                == pricing_rules[i]
             start_hour          == rule.start[1]
             start_minute        == rule.start[2]
             end_hour            == rule.end[1]
             end_minute          == rule.end[2]
             start_total_minutes == start_hour * 60 + start_minute
             end_total_minutes   == end_hour * 60 + end_minute
             price_amount        == rule.amount
         IN  IF start_total_minutes <= end_total_minutes
             THEN IF start_total_minutes <= current_total_minutes
                     /\ current_total_minutes < end_total_minutes
                  THEN [amount |-> price_amount,
                        start |-> <<start_hour, start_minute>>,
                        end |-> <<end_hour, end_minute>>,
                        period_name |-> IF start_hour >= 6 /\ end_hour <= 22 THEN "Daytime"
                                        ELSE IF price_amount = 0 THEN "FREE"
                                        ELSE "Standard"]
                  ELSE CurrentPricingLoop(pricing_rules, i + 1, current_total_minutes)
             ELSE IF current_total_minutes >= start_total_minutes
                     \/ current_total_minutes < end_total_minutes
                  THEN [amount |-> price_amount,
                        start |-> <<start_hour, start_minute>>,
                        end |-> <<end_hour, end_minute>>,
                        period_name |-> IF price_amount = 0 THEN "FREE" ELSE "Nighttime"]
                  ELSE CurrentPricingLoop(pricing_rules, i + 1, current_total_minutes)

\* pricing_calculator.get_current_time_based_pricing, with current_time the
\* clock it reads
get_current_time_based_pricing(pricing_rules, current_time) ==
    CurrentPricingLoop(pricing_rules, 1, TimeOfDayMinutes(current_time))

-----------------------------------------------------------------------------
(* The controller: values *)

\* last_tag_id = None, and the tag of a failed read
NoTag == "None"

\* rfid_mapping.RFID_TAG_MAPPING
RFID_TAG_MAPPING ==
    [t \in {"316922528399", "868383524177", "572221031092"} |->
        CASE t = "316922528399" ->
                 [contract_id |-> "2117046",
                  debtor_ident |-> "06cc07ed-8aa4-4111-ab75-a39ff18aba2c",
                  contract_ident |-> "3710a184-b0bc-49cf-998b-7c15213b99ea"]
          [] t = "868383524177" ->
                 [contract_id |-> "2118389",
                  debtor_ident |-> "c4b14198-4fc1-4ef2-bc82-1f568f8bbd0a",
                  contract_ident |-> "4e1ae42a-6df9-4f39-9afe-185672483251"]
          [] t = "572221031092" ->
                 [contract_id |-> "2118579",
                  debtor_ident |-> "6975df23-fdd2-4388-93a9-9f59cd126b0b",
                  contract_ident |-> "6975df23-fdd2-4388-93a9-9f59cd126b0b"]]

\* the value of RFID_TAG_MAPPING.get(tag) for a tag that is not mapped
NoCustomer == [contract_id |-> "", debtor_ident |-> "", contract_ident |-> ""]

\* a lookup that falls back to the first customer for a tag that is not mapped
\* (a faulty variant)
get_customer_info_fallback(rfid_tag) ==
    IF rfid_tag \in DOMAIN RFID_TAG_MAPPING THEN RFID_TAG_MAPPING[rfid_tag]
    ELSE RFID_TAG_MAPPING["316922528399"]

\* rfid_mapping.get_customer_info
get_customer_info(rfid_tag) ==
    IF rfid_tag \in DOMAIN RFID_TAG_MAPPING THEN RFID_TAG_MAPPING[rfid_tag] ELSE NoCustomer

\* the tags held to the reader: the mapped ones and one that is not mapped
Tags == DOMAIN RFID_TAG_MAPPING \cup {"000000000000"}

\* should_process_tag without the comparison of line 419: every tag that was
\* read is processed (a faulty variant)
should_process_tag_no_debounce(tag_id, current_time) == tag_id # NoTag

\* read_rfid.should_process_tag, with current_time the clock it reads
should_process_tag(tag_id, current_time) ==
    IF tag_id = NoTag THEN FALSE
    ELSE IF tag_id # last_tag_id THEN TRUE
    ELSE current_time - last_read_time >= DEBOUNCE_TIME

\* what calling an `async def` without awaiting it returns
Coroutine == [kind |-> "coroutine", items |-> <<>>]

\* Python truthiness of the values the controller tests
Truthy(v) == IF v.kind = "list" THEN v.items # <<>> ELSE TRUE

\* whether len(v) is defined
HasLen(v) == v.kind = "list"

\* request_get_contract_details.get_option_idents_from_contract as read_rfid.py:514
\* calls it: an async def, called without await
get_option_idents_from_contract == Coroutine

\* request_get_plan_options.get_nitrobox_plan_options as read_rfid.py:520 calls it
get_nitrobox_plan_options == Coroutine

\* the parameters create_nitrobox_usage requires (those without a default)
create_nitrobox_usage_required ==
    {"tag_id", "charging_start_time", "charging_end_time", "bearer_token",
     "customer_info", "product_ident"}

\* the keyword arguments of the call at read_rfid.py:471
create_nitrobox_usage_passed ==
    {"tag_id", "charging_start_time", "charging_end_time", "bearer_token", "customer_info"}

\* Python binds the arguments before the body runs
CallRaisesTypeError(required, passed) == ~(required \subseteq passed)

\* partner.inform_partner.inform_partner, the handler of charging_finished:
\* token is the outcome of its own fetch_bearer_token.  Without a token it
\* returns; with one, get_nitrobox_contract (async, not awaited) gives a
\* coroutine and extract_partner_properties raises on `'properties' not in contract`
inform_partner(token) == IF token THEN "raised" ELSE "returned"

\* AsyncEventEmitter._listeners after read_rfid.py:563-564
listeners == [e \in {"charging_finished"} |-> <<"inform_partner">>]

\* AsyncEventEmitter.emit: awaits each callback in turn, the first raise propagates
emit(event_name, token) ==
    IF event_name \notin DOMAIN listeners THEN "returned"
    ELSE IF \E i \in 1..Len(listeners[event_name]) : inform_partner(token) = "raised"
         THEN "raised"
         ELSE "returned"

\* a finally clause that leaves the pin as it is (a faulty variant)
GPIO_cleanup_skipped(level) == level

\* GPIO.cleanup() in the finally clause: the channel goes back to input, the
\* relay is no longer driven
GPIO_cleanup(level) == "INPUT"

\* toggle_relay with the levels swapped (a faulty variant)
relay_level_swapped(active) == IF active THEN "LOW" ELSE "HIGH"

\* the level toggle_relay writes
relay_level(active) == IF active THEN "HIGH" ELSE "LOW"

\* set_charging_state taking the opening branch whatever charging_active is
\* (a faulty variant)
branch_always_open(active) == "open"

\* the branch set_charging_state takes
branch(active) == IF active THEN "close" ELSE "open"

-----------------------------------------------------------------------------
(* The controller: the main loop of read_rfid.py *)

\* nothing was handed to the backend
NoRecord == [tag_id |-> NoTag, customer_info |-> NoCustomer,
             charging_start_time |-> None, charging_end_time |-> None]

\* lines 471-477: the arguments of the usage call that identify the session
UsageArguments(tag_id, charging_start_time, end_time, info) ==
    [tag_id |-> tag_id, customer_info |-> info,
     charging_start_time |-> charging_start_time, charging_end_time |-> end_time]

\* the state after lines 26-52 and 558-564
CtlInit ==
    /\ pc = "read"
    /\ charging_active = FALSE
    /\ charging_session_start = None
    /\ all_stored_plan_options = <<>>
    /\ last_tag_id = NoTag
    /\ last_read_time = 0
    /\ display \in BOOLEAN
    /\ relay = "LOW"
    /\ now = DEBOUNCE_TIME      \* time.time() is far beyond last_read_time = 0
    /\ customer_info = NoCustomer
    /\ charging_end_time = None
    /\ cost = None
    /\ transition = "none"
    /\ trace = <<>>
    /\ emit_failed = FALSE
    /\ usage_success = FALSE
    /\ exit_cause = "none"
    /\ openSessions = 0
    /\ bearer_token = "unset"
    /\ usage_record = NoRecord

\* an exception leaves the while loop: the finally clause runs, the process ends
LeaveMainLoop(cause) ==
    /\ pc' = "exited"
    /\ relay' = GPIO_cleanup(relay)
    /\ exit_cause' = cause

\* lines 567-569, 602: a failed read, or the same tag inside the debounce window
ReadIgnored ==
    /\ pc = "read"
    /\ \E tag_id \in Tags \cup {NoTag}, delta \in 0..DEBOUNCE_TIME :
          /\ now + delta <= MaxTime
          /\ ~should_process_tag(tag_id, now + delta)
          /\ now' = now + delta
    /\ UNCHANGED <<pc, charging_active, charging_session_start, all_stored_plan_options,
                   last_tag_id, last_read_time, display, relay, customer_info,
                   charging_end_time, cost, transition, trace, emit_failed, usage_success,
                   exit_cause, openSessions>>
    /\ UNCHANGED <<bearer_token, usage_record>>
    /\ UNCHANGED <<priceVars, fanVars, dlVars>>

\* lines 567-594: a processed tag that maps to no customer
ReadUnknown ==
    /\ pc = "read"
    /\ \E tag_id \in Tags, delta \in 0..DEBOUNCE_TIME :
          /\ now + delta <= MaxTime
          /\ should_process_tag(tag_id, now + delta)
          /\ get_customer_info(tag_id) = NoCustomer
          /\ now' = now + delta
          /\ last_tag_id' = tag_id
          /\ last_read_time' = now + delta
    /\ UNCHANGED <<pc, charging_active, charging_session_start, all_stored_plan_options,
                   display, relay, customer_info, charging_end_time, cost, transition,
                   trace, emit_failed, usage_success, exit_cause, openSessions>>
    /\ UNCHANGED <<bearer_token, usage_record>>
    /\ UNCHANGED <<priceVars, fanVars, dlVars>>

\* lines 567-596: a processed tag of a customer, up to the call of set_charging_state
ReadAccepted ==
    /\ pc = "read"
    /\ \E tag_id \in Tags, delta \in 0..DEBOUNCE_TIME :
          /\ now + delta <= MaxTime
          /\ should_process_tag(tag_id, now + delta)
          /\ get_customer_info(tag_id) # NoCustomer
          /\ now' = now + delta
          /\ last_tag_id' = tag_id
          /\ last_read_time' = now + delta
          /\ customer_info' = get_customer_info(tag_id)
    /\ pc' = "set_charging_state"
    /\ transition' = "none"
    /\ trace' = <<>>
    /\ emit_failed' = FALSE
    /\ usage_success' = FALSE
    /\ cost' = None
    /\ charging_end_time' = None
    /\ bearer_token' = "unset"
    /\ usage_record' = NoRecord
    /\ UNCHANGED <<charging_active, charging_session_start, all_stored_plan_options,
                   display, relay, exit_cause, openSessions>>
    /\ UNCHANGED <<priceVars, fanVars, dlVars>>

\* lines 427-430: the closing branch records the end time
CloseRecordEnd ==
    /\ pc = "set_charging_state"
    /\ branch(charging_active) = "close"
    /\ transition' = "close"
    /\ charging_end_time' = now
    /\ trace' = Append(trace, "end_time")
    /\ pc' = "emit_finished"
    /\ UNCHANGED <<charging_active, charging_session_start, all_stored_plan_options,
                   last_tag_id, last_read_time, display, relay, now, customer_info, cost,
                   emit_failed, usage_success, exit_cause, openSessions>>
    /\ UNCHANGED <<bearer_token, usage_record>>
    /\ UNCHANGED <<priceVars, fanVars, dlVars>>

\* lines 432-440 with a handler of charging_finished that cuts the relay itself
EmitChargingFinished_cutting_relay ==
    /\ pc = "emit_finished"
    /\ \E token \in BOOLEAN :
          emit_failed' = (emit("charging_finished", token) = "raised")
    /\ relay' = relay_level(FALSE)
    /\ trace' = Append(trace, "emit_charging_finished")
    /\ pc' = "cost"
    /\ UNCHANGED <<charging_active, charging_session_start, all_stored_plan_options,
                   last_tag_id, last_read_time, display, now, customer_info,
                   charging_end_time, cost, transition, usage_success, exit_cause,
                   openSessions>>
    /\ UNCHANGED <<bearer_token, usage_record>>
    /\ UNCHANGED <<priceVars, fanVars, dlVars>>

\* lines 432-440: charging_finished is emitted inside try/except Exception
EmitChargingFinished ==
    /\ pc = "emit_finished"
    /\ \E token \in BOOLEAN :
          emit_failed' = (emit("charging_finished", token) = "raised")
    /\ trace' = Append(trace, "emit_charging_finished")
    /\ pc' = "cost"
    /\ UNCHANGED <<charging_active, charging_session_start, all_stored_plan_options,
                   last_tag_id, last_read_time, display, relay, now, customer_info,
                   charging_end_time, cost, transition, usage_success, exit_cause,
                   openSessions>>
    /\ UNCHANGED <<bearer_token, usage_record>>
    /\ UNCHANGED <<priceVars, fanVars, dlVars>>

\* lines 442-454: the cost is computed and shown when there is a display
ShowCost ==
    /\ pc = "cost"
    /\ IF display /\ charging_session_start # None
       THEN /\ cost' = IF all_stored_plan_options # <<>>
                       THEN calculate_total_charging_cost(charging_session_start,
                                                          charging_end_time,
                                                          all_stored_plan_options)
                       ELSE 0
            /\ trace' = Append(trace, "cost")
       ELSE UNCHANGED <<cost, trace>>
    /\ pc' = "report"
    /\ UNCHANGED <<charging_active, charging_session_start, all_stored_plan_options,
                   last_tag_id, last_read_time, display, relay, now, customer_info,
                   charging_end_time, transition, emit_failed, usage_success, exit_cause,
                   openSessions>>
    /\ UNCHANGED <<bearer_token, usage_record>>
    /\ UNCHANGED <<priceVars, fanVars, dlVars>>

\* lines 456-468 without the lines 464-467: a close without bearer token
\* returns with the session as it is (a faulty variant)
FetchTokenForUsage_not_clearing ==
    /\ pc = "report"
    /\ \E token \in BOOLEAN :
          /\ bearer_token' = IF charging_session_start = None THEN bearer_token
                              ELSE IF token THEN "token" ELSE "none"
          /\ pc' = IF charging_session_start # None /\ ~token
                   THEN "toggle_relay" ELSE "create_usage"
    /\ UNCHANGED <<charging_active, charging_session_start, all_stored_plan_options,
                   openSessions, trace>>
    /\ UNCHANGED <<last_tag_id, last_read_time, display, relay, now, customer_info,
                   charging_end_time, cost, transition, emit_failed, usage_success,
                   exit_cause, usage_record>>
    /\ UNCHANGED <<priceVars, fanVars, dlVars>>

\* lines 456-468: the bearer token of the close; without one the session is
\* cleared and set_charging_state returns
FetchTokenForUsage ==
    /\ pc = "report"
    /\ \E token \in BOOLEAN :
          /\ bearer_token' = IF charging_session_start = None THEN bearer_token
                              ELSE IF token THEN "token" ELSE "none"
          /\ IF charging_session_start # None /\ ~token
             THEN /\ charging_active' = FALSE
                  /\ charging_session_start' = None
                  /\ all_stored_plan_options' = <<>>
                  /\ openSessions' = openSessions - 1
                  /\ trace' = Append(trace, "cleared")
                  /\ pc' = "toggle_relay"
             ELSE /\ pc' = "create_usage"
                  /\ UNCHANGED <<charging_active, charging_session_start,
                                 all_stored_plan_options, openSessions, trace>>
    /\ UNCHANGED <<last_tag_id, last_read_time, display, relay, now, customer_info,
                   charging_end_time, cost, transition, emit_failed, usage_success,
                   exit_cause, usage_record>>
    /\ UNCHANGED <<priceVars, fanVars, dlVars>>

\* lines 470-502: create_nitrobox_usage is called, then the billing run, then
\* the session is cleared
CreateUsage ==
    /\ pc = "create_usage"
    /\ IF charging_session_start # None
          /\ CallRaisesTypeError(create_nitrobox_usage_required, create_nitrobox_usage_passed)
       THEN /\ LeaveMainLoop("TypeError: create_nitrobox_usage")
            /\ UNCHANGED <<charging_active, charging_session_start,
                           all_stored_plan_options, openSessions, trace, usage_success,
                           usage_record>>
       ELSE /\ usage_record' =
                  IF charging_session_start = None THEN usage_record
                  ELSE UsageArguments(last_tag_id, charging_session_start,
                                      charging_end_time, customer_info)
            /\ \E success \in BOOLEAN :
                  /\ usage_success' = (charging_session_start # None /\ success)
                  /\ trace' = trace
                              \o (IF charging_session_start # None
                                  THEN <<"usage">> ELSE <<>>)
                              \o (IF charging_session_start # None /\ success
                                  THEN <<"billing">> ELSE <<>>)
                              \o <<"cleared">>
            /\ charging_active' = FALSE
            /\ charging_session_start' = None
            /\ all_stored_plan_options' = <<>>
            /\ openSessions' = openSessions - 1
            /\ pc' = "toggle_relay"
            /\ UNCHANGED <<relay, exit_cause>>
    /\ UNCHANGED <<last_tag_id, last_read_time, display, now, customer_info,
                   charging_end_time, cost, transition, emit_failed, bearer_token>>
    /\ UNCHANGED <<priceVars, fanVars, dlVars>>

\* lines 503-511: the opening branch records the start and fetches a bearer token
OpenSession ==
    /\ pc = "set_charging_state"
    /\ branch(charging_active) = "open"
    /\ transition' = "open"
    /\ charging_session_start' = now
    /\ charging_active' = TRUE
    /\ openSessions' = openSessions + 1
    /\ trace' = Append(trace, "start_time")
    /\ \E token \in BOOLEAN :
          /\ bearer_token' = IF token THEN "token" ELSE "none"
          /\ pc' = IF token THEN "plan_options" ELSE "toggle_relay"
    /\ UNCHANGED <<all_stored_plan_options, last_tag_id, last_read_time, display, relay,
                   now, customer_info, charging_end_time, cost, emit_failed,
                   usage_success, exit_cause, usage_record>>
    /\ UNCHANGED <<priceVars, fanVars, dlVars>>

\* lines 533-546: every future's result is (option_ident, plan_options) with
\* plan_options what get_nitrobox_plan_options returned; truthy ones are stored
CollectPlanOptions(option_idents) ==
    [i \in 1..Len(option_idents) |-> <<option_idents[i], get_nitrobox_plan_options>>]

\* lines 512-551: the option identifiers and the plan options of the contract
FetchPlanOptions ==
    /\ pc = "plan_options"
    /\ LET option_idents == get_option_idents_from_contract
       IN  IF Truthy(option_idents) /\ ~HasLen(option_idents)
           THEN /\ LeaveMainLoop("TypeError: len")
                /\ UNCHANGED all_stored_plan_options
           ELSE /\ all_stored_plan_options' =
                       IF Truthy(option_idents)
                       THEN CollectPlanOptions(option_idents.items)
                       ELSE all_stored_plan_options
                /\ pc' = "toggle_relay"
                /\ UNCHANGED <<relay, exit_cause>>
    /\ UNCHANGED <<charging_active, charging_session_start, last_tag_id, last_read_time,
                   display, now, customer_info, charging_end_time, cost, transition,
                   trace, emit_failed, usage_success, openSessions>>
    /\ UNCHANGED <<bearer_token, usage_record>>
    /\ UNCHANGED <<priceVars, fanVars, dlVars>>

\* lines 597, 553-556: toggle_relay, then back to the top of the loop
ToggleRelay ==
    /\ pc = "toggle_relay"
    /\ relay' = relay_level(charging_active)
    /\ trace' = Append(trace, "relay")
    /\ pc' = "read"
    /\ UNCHANGED <<charging_active, charging_session_start, all_stored_plan_options,
                   last_tag_id, last_read_time, display, now, customer_info,
                   charging_end_time, cost, transition, emit_failed, usage_success,
                   exit_cause, openSessions>>
    /\ UNCHANGED <<bearer_token, usage_record>>
    /\ UNCHANGED <<priceVars, fanVars, dlVars>>

\* lines 558, 604-607: KeyboardInterrupt anywhere in the loop
Interrupt ==
    /\ pc # "exited"
    /\ LeaveMainLoop("KeyboardInterrupt")
    /\ UNCHANGED <<charging_active, charging_session_start, all_stored_plan_options,
                   last_tag_id, last_read_time, display, now, customer_info,
                   charging_end_time, cost, transition, trace, emit_failed, usage_success,
                   openSessions>>
    /\ UNCHANGED <<bearer_token, usage_record>>
    /\ UNCHANGED <<priceVars, fanVars, dlVars>>

-----------------------------------------------------------------------------
(* The pricing functions applied to bounded inputs *)

Tier(quantity, price) == [quantity |-> Num(quantity), price |-> price]

\* the tiers of pricing_calculator.test_tiered_pricing
ExampleTiers == <<Tier(5, 0), Tier(1, 1)>>

TierLists ==
    { <<>>,
      ExampleTiers,
      <<Tier(3, 2)>>,
      <<Tier(2, 3), Tier(4, 1), Tier(1, 5)>>,
      <<Tier(5, 2), Tier(5, 0)>> }

Rule(start, end, amount) == [start |-> start, end |-> end, amount |-> amount]

\* the day and night bands of the blocking fee
ExampleRules ==
    <<Rule(HMS(8, 0, 0), HMS(22, 0, 0), 10), Rule(HMS(22, 0, 0), HMS(8, 0, 0), 0)>>

\* the example bands; one overnight band; two overlapping bands; a band that
\* is empty (start = end) before a morning band
RuleLists ==
    { ExampleRules,
      <<Rule(HMS(22, 0, 0), HMS(8, 0, 0), 4)>>,
      <<Rule(HMS(0, 0, 0), HMS(12, 0, 0), 5), Rule(HMS(8, 0, 0), HMS(22, 0, 0), 10)>>,
      <<Rule(HMS(9, 0, 0), HMS(9, 0, 0), 7), Rule(HMS(6, 30, 0), HMS(10, 0, 0), 3)>> }

QuantityTypes == {"SECOND", "MINUTE", "HOUR", "KILOWATT_HOUR", "UNIT", "minute"}

\* a plan option as the backend's JSON gives it; keys are the keys present
NamedPlan(keys, pricingRules, priceTiers, quantityType, optionName, name) ==
    [keys |-> keys, pricingRules |-> pricingRules, priceTiers |-> priceTiers,
     quantityType |-> quantityType, optionName |-> optionName, name |-> name]

PlanOption(keys, pricingRules, priceTiers, quantityType, optionName) ==
    NamedPlan(keys, pricingRules, priceTiers, quantityType, optionName, <<>>)

EmptyPlan == PlanOption({}, <<>>, <<>>, "", <<>>)

ChargingName == <<"C","h","a","r","g","i","n","g","-","T","i","m","e">>

BlockingName == <<"B","l","o","c","k","i","n","g","-","T","i","m","e">>

TieredPlans ==
    { PlanOption({"priceTiers", "quantityType", "optionName"}, <<>>, t, q, ChargingName) :
          t \in TierLists, q \in QuantityTypes }
    \cup { PlanOption({"priceTiers", "optionName"}, <<>>, t, "", ChargingName) :
          t \in TierLists }

BandedPlans ==
    { PlanOption({"pricingGroups", "quantityType", "optionName"}, r, <<>>, q, BlockingName) :
          r \in RuleLists, q \in {"MINUTE", "SECOND", "HOUR"} }
    \cup { PlanOption({"pricingGroups", "optionName"}, r, <<>>, "", BlockingName) :
          r \in RuleLists }

PlanOptions ==
    TieredPlans \cup BandedPlans
    \cup {EmptyPlan, PlanOption({"optionName"}, <<>>, <<>>, "", ChargingName)}

StartTimes ==
    {At(2, 0, 0), At(8, 0, 0), At(9, 0, 0), At(10, 0, 0), At(21, 59, 30), At(22, 0, 0),
     At(23, 0, 0), At(23, 30, 0)}

\* the wall clock set back between the two readings of datetime.now() (lines
\* 505 and 429): the end of daylight saving time, a correction of the clock
ClockSetBack == {-(MaxDuration * DurationStep)}

\* charging_end_time - charging_session_start, in seconds
Durations ==
    (0..MaxUnits) \cup {k * DurationStep : k \in 1..MaxDuration} \cup ClockSetBack

\* the plan options of a contract, as the backend names them: the blocking
\* fee, the charging fee (per minute), an option that is neither, a blocking
\* fee called "Block-Fee", a blocking fee that carries its name under "name"
\* only, a second charging fee, and a fee whose name holds both words
ContractOptions ==
    << PlanOption({"pricingGroups", "quantityType", "optionName"},
                  ExampleRules, <<>>, "MINUTE", BlockingName),
       PlanOption({"priceTiers", "quantityType", "optionName"},
                  <<>>, ExampleTiers, "MINUTE", ChargingName),
       PlanOption({"priceTiers", "quantityType", "optionName"},
                  <<>>, <<Tier(3, 2)>>, "SECOND", <<"P","a","r","k","i","n","g">>),
       PlanOption({"pricingGroups", "quantityType", "optionName"},
                  ExampleRules, <<>>, "MINUTE", <<"B","l","o","c","k","-","F","e","e">>),
       NamedPlan({"pricingGroups", "quantityType", "name"},
                 ExampleRules, <<>>, "MINUTE", <<>>, BlockingName),
       PlanOption({"priceTiers", "quantityType", "optionName"},
                  <<>>, <<Tier(3, 2)>>, "MINUTE",
                  <<"C","h","a","r","g","i","n","g","-","F","a","s","t">>),
       PlanOption({"priceTiers", "quantityType", "optionName"},
                  <<>>, <<Tier(3, 3)>>, "MINUTE",
                  <<"B","l","o","c","k","i","n","g","-","C","h","a","r","g","i","n","g">>) >>

OptionIdent(k) ==
    CASE k = 1 -> "option-1"
      [] k = 2 -> "option-2"
      [] k = 3 -> "option-3"
      [] k = 4 -> "option-4"
      [] k = 5 -> "option-5"
      [] k = 6 -> "option-6"
      [] k = 7 -> "option-7"
      [] OTHER -> "option-8"

\* the lists of (option_ident, plan_options) of up to MaxPlans different options
PlanLists ==
    UNION { { [i \in 1..n |-> <<OptionIdent(ks[i]), ContractOptions[ks[i]]>>] :
                ks \in { q \in [1..n -> 1..Len(ContractOptions)] :
                             \A i, j \in 1..n : i # j => q[i] # q[j] } } :
            n \in 0..MaxPlans }

\* a result that has not been computed yet
NotResolved == [amount |-> None, start |-> <<>>, end |-> <<>>, period_name |-> "-"]

NotSelected == <<>>

TotalStartTimes == {At(8, 0, 0), At(23, 30, 0)}

TotalDurations == {5, 2 * DurationStep}

\* the pricing variables while the controller runs
PriceIdle ==
    /\ p_op = "idle"
    /\ p_start = 0
    /\ p_end = 0
    /\ p_plan = EmptyPlan
    /\ p_units = 0
    /\ p_tiers = <<>>
    /\ p_all = <<>>
    /\ p_cost_tiered = None
    /\ p_cost_pricing = None
    /\ p_cost_controller = None
    /\ p_resolved = NotResolved
    /\ p_total_pricing = None
    /\ p_total_controller = None
    /\ p_display = NotSelected

\* the inputs: of calculate_tiered_cost, of calculate_single_plan_cost and
\* get_current_time_based_pricing, or of calculate_total_charging_cost and
\* display_sequential_pricing
PriceInit ==
    /\ \/ /\ p_op = "tiered"
          /\ p_units \in {Num(n) : n \in 0..MaxUnits}
          /\ p_tiers \in TierLists
          /\ p_plan = EmptyPlan
          /\ p_start = 0
          /\ p_end = 0
          /\ p_all = <<>>
       \/ /\ p_op = "plan"
          /\ p_plan \in PlanOptions
          /\ p_start \in StartTimes
          /\ p_end \in {p_start + d : d \in Durations}
          /\ p_units = 0
          /\ p_tiers = <<>>
          /\ p_all = <<>>
       \/ /\ p_op = "total"
          /\ p_all \in PlanLists
          /\ p_start \in TotalStartTimes
          /\ p_end \in {p_start + d : d \in TotalDurations}
          /\ p_plan = EmptyPlan
          /\ p_units = 0
          /\ p_tiers = <<>>
    /\ p_cost_tiered = None
    /\ p_cost_pricing = None
    /\ p_cost_controller = None
    /\ p_resolved = NotResolved
    /\ p_total_pricing = None
    /\ p_total_controller = None
    /\ p_display = NotSelected

\* pricing_calculator.calculate_tiered_cost(p_units, p_tiers, ...)
CalcTieredCost ==
    /\ p_op = "tiered"
    /\ p_cost_tiered = None
    /\ p_cost_tiered' = calculate_tiered_cost(p_units, p_tiers)
    /\ UNCHANGED <<priceInputs, p_cost_pricing, p_cost_controller, p_resolved,
                   p_total_pricing, p_total_controller, p_display>>
    /\ UNCHANGED <<ctlVars, fanVars, dlVars>>

\* pricing_calculator.calculate_single_plan_cost(p_start, p_end, p_plan, ...)
CalcPricingPlanCost ==
    /\ p_op = "plan"
    /\ p_cost_pricing = None
    /\ p_cost_pricing' = pricing_calculate_single_plan_cost(p_start, p_end, p_plan)
    /\ UNCHANGED <<priceInputs, p_cost_tiered, p_cost_controller, p_resolved,
                   p_total_pricing, p_total_controller, p_display>>
    /\ UNCHANGED <<ctlVars, fanVars, dlVars>>

\* read_rfid.calculate_single_plan_cost(p_start, p_end, p_plan, ...)
CalcControllerPlanCost ==
    /\ p_op = "plan"
    /\ p_cost_controller = None
    /\ p_cost_controller' = calculate_single_plan_cost(p_start, p_end, p_plan)
    /\ UNCHANGED <<priceInputs, p_cost_tiered, p_cost_pricing, p_resolved,
                   p_total_pricing, p_total_controller, p_display>>
    /\ UNCHANGED <<ctlVars, fanVars, dlVars>>

\* pricing_calculator.get_current_time_based_pricing(pricingRules) of a
\* time-banded plan, the clock reading p_start
CalcCurrentPricing ==
    /\ p_op = "plan"
    /\ "pricingGroups" \in p_plan.keys
    /\ p_resolved = NotResolved
    /\ p_resolved' = get_current_time_based_pricing(p_plan.pricingRules, p_start)
    /\ UNCHANGED <<priceInputs, p_cost_tiered, p_cost_pricing, p_cost_controller,
                   p_total_pricing, p_total_controller, p_display>>
    /\ UNCHANGED <<ctlVars, fanVars, dlVars>>

\* pricing_calculator.calculate_total_charging_cost(p_start, p_end, p_all)
CalcPricingTotal ==
    /\ p_op = "total"
    /\ p_total_pricing = None
    /\ p_total_pricing' = pricing_calculate_total_charging_cost(p_start, p_end, p_all)
    /\ UNCHANGED <<priceInputs, p_cost_tiered, p_cost_pricing, p_cost_controller,
                   p_resolved, p_total_controller, p_display>>
    /\ UNCHANGED <<ctlVars, fanVars, dlVars>>

\* read_rfid.calculate_total_charging_cost(p_start, p_end, p_all)
CalcControllerTotal ==
    /\ p_op = "total"
    /\ p_total_controller = None
    /\ p_total_controller' = calculate_total_charging_cost(p_start, p_end, p_all)
    /\ UNCHANGED <<priceInputs, p_cost_tiered, p_cost_pricing, p_cost_controller,
                   p_resolved, p_total_pricing, p_display>>
    /\ UNCHANGED <<ctlVars, fanVars, dlVars>>

\* display_sequential_pricing(p_all, display), up to the selection of the options
CalcDisplayOptions ==
    /\ p_op = "total"
    /\ p_display = NotSelected
    /\ p_display' = display_sequential_pricing(p_all)
    /\ UNCHANGED <<priceInputs, p_cost_tiered, p_cost_pricing, p_cost_controller,
                   p_resolved, p_total_pricing, p_total_controller>>
    /\ UNCHANGED <<ctlVars, fanVars, dlVars>>

-----------------------------------------------------------------------------
(* The plan-option fan-out of set_charging_state, read_rfid.py:517-547, run   *)
(* on a list of option identifiers.  The main thread submits one future per  *)
(* identifier to a ThreadPoolExecutor, collects them with as_completed and   *)
(* stores the list; the pool's threads take the queued futures in order.     *)

\* the executor with one thread per identifier (a faulty variant)
max_workers_unbounded(option_idents) == Len(option_idents)

\* line 525: max_workers=min(len(option_idents), 5)
max_workers(option_idents) == Min(Len(option_idents), 5)

\* lines 518-520: the helper a pool thread runs; get_nitrobox_plan_options is
\* an async def called without await, so the second component is a coroutine
get_single_plan_option(option_ident) == <<option_ident, get_nitrobox_plan_options>>

\* whether v.get(...) is defined: on a dict, not on a coroutine
HasGet(v) == v.kind = "dict"

\* a float result, and an exception in its place
Returned(value) == [error |-> "", value |-> value]

Raised(error) == [error |-> error, value |-> None]

NotComputed == [error |-> "-", value |-> None]

\* the futures in a given state
Futures(state) == {i \in 1..Len(f_future) : f_future[i] = state}

FanSessionStart == At(8, 0, 0)

FanSessionEnd == At(8, 10, 0)

\* the fan-out variables while nothing is fanned out
FanIdle ==
    /\ f_pc = "idle"
    /\ f_option_idents = <<>>
    /\ f_failing = {}
    /\ f_future = <<>>
    /\ f_all_plan_options = <<>>
    /\ f_stored = <<>>
    /\ f_total = NotComputed

\* lines 516-524: a non-empty list of identifiers, an empty all_plan_options,
\* the executor created; the backend fails for the identifiers of f_failing
FanInit ==
    /\ f_pc = "submit"
    /\ \E n \in 1..MaxOptions :
          /\ f_option_idents = [i \in 1..n |-> OptionIdent(i)]
          /\ f_future = [i \in 1..n |-> "new"]
    /\ f_failing \in {{}, {OptionIdent(1)}, {OptionIdent(2)}}
    /\ f_all_plan_options = <<>>
    /\ f_stored = <<>>
    /\ f_total = NotComputed

\* lines 527-530: executor.submit for the next identifier of the comprehension
Submit ==
    /\ f_pc = "submit"
    /\ LET i == CHOOSE k \in Futures("new") : \A j \in Futures("new") : k <= j
       IN  /\ f_future' = [f_future EXCEPT ![i] = "queued"]
           /\ f_pc' = IF Futures("new") = {i} THEN "collect" ELSE "submit"
    /\ UNCHANGED <<f_option_idents, f_failing, f_all_plan_options, f_stored, f_total>>
    /\ UNCHANGED <<ctlVars, priceVars, dlVars>>

\* a thread of the pool takes the oldest queued future; the pool has at most
\* max_workers threads
WorkerStart ==
    /\ Futures("queued") # {}
    /\ Cardinality(Futures("running")) < max_workers(f_option_idents)
    /\ LET i == CHOOSE k \in Futures("queued") : \A j \in Futures("queued") : k <= j
       IN  f_future' = [f_future EXCEPT ![i] = "running"]
    /\ UNCHANGED <<f_pc, f_option_idents, f_failing, f_all_plan_options, f_stored, f_total>>
    /\ UNCHANGED <<ctlVars, priceVars, dlVars>>

\* get_single_plan_option returns in a pool thread: the future is done
WorkerFinish ==
    /\ \E i \in Futures("running") :
          f_future' = [f_future EXCEPT ![i] = "done"]
    /\ UNCHANGED <<f_pc, f_option_idents, f_failing, f_all_plan_options, f_stored, f_total>>
    /\ UNCHANGED <<ctlVars, priceVars, dlVars>>

\* lines 533-543 with the store of line 546 inside the loop: the session's
\* plan options are rewritten at every collected result
Collect_storing ==
    /\ f_pc = "collect"
    /\ \E i \in Futures("done") :
          LET result       == get_single_plan_option(f_option_idents[i])
              plan_options == result[2]
          IN  /\ f_future' = [f_future EXCEPT ![i] = "collected"]
              /\ f_all_plan_options' =
                     IF Truthy(plan_options)
                     THEN Append(f_all_plan_options, result)
                     ELSE f_all_plan_options
              /\ f_stored' = f_all_plan_options'
    /\ UNCHANGED <<f_pc, f_option_idents, f_failing, f_total>>
    /\ UNCHANGED <<ctlVars, priceVars, dlVars>>

\* lines 533-543: as_completed yields a done future, its result is appended
\* when the plan options are truthy
Collect ==
    /\ f_pc = "collect"
    /\ \E i \in Futures("done") :
          LET result       == get_single_plan_option(f_option_idents[i])
              plan_options == result[2]
          IN  /\ f_future' = [f_future EXCEPT ![i] = "collected"]
              /\ f_all_plan_options' =
                     IF Truthy(plan_options)
                     THEN Append(f_all_plan_options, result)
                     ELSE f_all_plan_options
    /\ UNCHANGED <<f_pc, f_option_idents, f_failing, f_stored, f_total>>
    /\ UNCHANGED <<ctlVars, priceVars, dlVars>>

\* lines 533, 546: as_completed is exhausted, the with block is left and the
\* list is stored
StoreAll ==
    /\ f_pc = "collect"
    /\ Futures("collected") = 1..Len(f_future)
    /\ f_stored' = f_all_plan_options
    /\ f_pc' = "stored"
    /\ UNCHANGED <<f_option_idents, f_failing, f_future, f_all_plan_options, f_total>>
    /\ UNCHANGED <<ctlVars, priceVars, dlVars>>

\* lines 446-451 and 244-247: the close computes the total of the stored
\* options; calculate_total_charging_cost calls plan_options.get on each
CloseTotal ==
    /\ f_pc = "stored"
    /\ f_total' =
           IF f_stored = <<>> THEN Returned(0)
           ELSE IF ~HasGet(f_stored[1][2]) THEN Raised("AttributeError")
           ELSE Returned(calculate_total_charging_cost(FanSessionStart, FanSessionEnd,
                                                       f_stored))
    /\ f_pc' = "closed"
    /\ UNCHANGED <<f_option_idents, f_failing, f_future, f_all_plan_options, f_stored>>
    /\ UNCHANGED <<ctlVars, priceVars, dlVars>>

\* lines 464-467 and 499-502: the close clears the plan options of the session;
\* without a display no total is computed before (line 443)
CloseClear ==
    /\ \/ f_pc = "stored"
       \/ f_pc = "closed" /\ f_total.error = ""
    /\ f_stored' = <<>>
    /\ f_pc' = "cleared"
    /\ UNCHANGED <<f_option_idents, f_failing, f_future, f_all_plan_options, f_total>>
    /\ UNCHANGED <<ctlVars, priceVars, dlVars>>

-----------------------------------------------------------------------------
(* The PDF download service: the background tasks of pdf-viewer-kiosk/app.py *)

\* the background tasks that /download requests start, all for one customer
Tasks == 1..MaxTasks

\* the documents of the customer at the backend, oldest first
Documents == 1..MaxDocuments

NoDocument == 0

\* app.py:299-301: local_name is customer-ident-timestamp-name; the customer
\* and the suggested name are the same for every file of this model
local_name(document_ident, timestamp) ==
    [document_ident |-> document_ident, timestamp |-> timestamp]

\* app.py:250-254: some file name in DOWNLOAD_DIR holds -doc_ident-
already_downloaded(doc_ident) ==
    \E p \in d_files : p.document_ident = doc_ident

\* no request was made
DlIdle ==
    /\ d_pc = [t \in Tasks |-> "idle"]
    /\ d_document_ident = [t \in Tasks |-> NoDocument]
    /\ d_files = {}
    /\ d_latest = 1
    /\ d_clock = 0

\* the service is up: DOWNLOAD_DIR is empty or holds the first document
DlInit ==
    /\ d_pc = [t \in Tasks |-> "idle"]
    /\ d_document_ident = [t \in Tasks |-> NoDocument]
    /\ d_files \in {{}, {local_name(1, 0)}}
    /\ d_latest \in Documents
    /\ d_clock = 0

\* app.py:323-341: POST /download adds a background task and answers 202
download_endpoint(t) ==
    /\ d_pc[t] = "idle"
    /\ d_pc' = [d_pc EXCEPT ![t] = "token"]
    /\ UNCHANGED <<d_document_ident, d_files, d_latest, d_clock>>
    /\ UNCHANGED <<ctlVars, priceVars, fanVars>>

\* app.py:265-270: the task ends when no access token is obtained
GetAccessToken(t) ==
    /\ d_pc[t] = "token"
    /\ \E ok \in BOOLEAN :
          d_pc' = [d_pc EXCEPT ![t] = IF ok THEN "poll" ELSE "done"]
    /\ UNCHANGED <<d_document_ident, d_files, d_latest, d_clock>>
    /\ UNCHANGED <<ctlVars, priceVars, fanVars>>

\* app.py:276-293: the newest document of the customer, or the end of the task
\* when the request fails (after the one retry of a 502)
GetLatestDocumentIdent(t) ==
    /\ d_pc[t] = "poll"
    /\ \E ok \in BOOLEAN :
          IF ok
          THEN /\ d_document_ident' = [d_document_ident EXCEPT ![t] = d_latest]
               /\ d_pc' = [d_pc EXCEPT ![t] = "check"]
          ELSE /\ d_pc' = [d_pc EXCEPT ![t] = "done"]
               /\ UNCHANGED d_document_ident
    /\ UNCHANGED <<d_files, d_latest, d_clock>>
    /\ UNCHANGED <<ctlVars, priceVars, fanVars>>

\* app.py:295, 309-317: a document without a file is downloaded; otherwise the
\* task polls again after poll_seconds, or stops after wait_seconds
CheckDownloaded(t) ==
    /\ d_pc[t] = "check"
    /\ IF ~already_downloaded(d_document_ident[t])
       THEN d_pc' = [d_pc EXCEPT ![t] = "download"]
       ELSE \E timeout \in BOOLEAN :
               d_pc' = [d_pc EXCEPT ![t] = IF timeout THEN "done" ELSE "poll"]
    /\ UNCHANGED <<d_document_ident, d_files, d_latest, d_clock>>
    /\ UNCHANGED <<ctlVars, priceVars, fanVars>>

\* app.py:296-297, 304-306: download_file, whose error ends the task
DownloadFile(t) ==
    /\ d_pc[t] = "download"
    /\ \E ok \in BOOLEAN :
          d_pc' = [d_pc EXCEPT ![t] = IF ok THEN "save" ELSE "done"]
    /\ UNCHANGED <<d_document_ident, d_files, d_latest, d_clock>>
    /\ UNCHANGED <<ctlVars, priceVars, fanVars>>

\* app.py:298-306: the file is written under a name with the second of the
\* write; a file of that very name is overwritten
SaveFile(t) ==
    /\ d_pc[t] = "save"
    /\ d_files' = d_files \cup {local_name(d_document_ident[t], d_clock)}
    /\ d_pc' = [d_pc EXCEPT ![t] = "done"]
    /\ UNCHANGED <<d_document_ident, d_latest, d_clock>>
    /\ UNCHANGED <<ctlVars, priceVars, fanVars>>

\* the backend creates a newer document for the customer
NewDocument ==
    /\ d_latest < MaxDocuments
    /\ d_latest' = d_latest + 1
    /\ UNCHANGED <<d_pc, d_document_ident, d_files, d_clock>>
    /\ UNCHANGED <<ctlVars, priceVars, fanVars>>

\* a second passes
ClockTick ==
    /\ d_clock < MaxClock
    /\ d_clock' = d_clock + 1
    /\ UNCHANGED <<d_pc, d_document_ident, d_files, d_latest>>
    /\ UNCHANGED <<ctlVars, priceVars, fanVars>>

-----------------------------------------------------------------------------
(* Specifications *)

Init == CtlInit /\ PriceIdle /\ FanIdle /\ DlIdle

Next ==
    \/ ReadIgnored
    \/ ReadUnknown
    \/ ReadAccepted
    \/ CloseRecordEnd
    \/ EmitChargingFinished
    \/ ShowCost
    \/ FetchTokenForUsage
    \/ CreateUsage
    \/ OpenSession
    \/ FetchPlanOptions
    \/ ToggleRelay
    \/ Interrupt

Spec == Init /\ [][Next]_vars

InitPricing == CtlInit /\ PriceInit /\ FanIdle /\ DlIdle

NextPricing ==
    \/ CalcTieredCost
    \/ CalcPricingPlanCost
    \/ CalcControllerPlanCost
    \/ CalcCurrentPricing
    \/ CalcPricingTotal
    \/ CalcControllerTotal
    \/ CalcDisplayOptions

SpecPricing == InitPricing /\ [][NextPricing]_vars

InitFanOut == CtlInit /\ PriceIdle /\ FanInit /\ DlIdle

NextFanOut ==
    \/ Submit
    \/ WorkerStart
    \/ WorkerFinish
    \/ Collect
    \/ StoreAll
    \/ CloseTotal
    \/ CloseClear

SpecFanOut == InitFanOut /\ [][NextFanOut]_vars

InitDownload == CtlInit /\ PriceIdle /\ FanIdle /\ DlInit

NextDownload ==
    \/ \E t \in Tasks : download_endpoint(t)
    \/ \E t \in Tasks : GetAccessToken(t)
    \/ \E t \in Tasks : GetLatestDocumentIdent(t)
    \/ \E t \in Tasks : CheckDownloaded(t)
    \/ \E t \in Tasks : DownloadFile(t)
    \/ \E t \in Tasks : SaveFile(t)
    \/ NewDocument
    \/ ClockTick

SpecDownload == InitDownload /\ [][NextDownload]_vars

-----------------------------------------------------------------------------
(* Properties *)

Range(seq) == {seq[i] : i \in 1..Len(seq)}

Last(seq) == seq[Len(seq)]

\* set_charging_state was left by an uncaught error, which ended the process
Aborted == pc = "exited" /\ exit_cause # "KeyboardInterrupt"

\* the handling of the accepted credential is over: the loop is back at the
\* reader, or the process died of an error on the way
HandlingEnded == pc = "read" \/ Aborted

\* the session variables after line 499-502
SessionCleared ==
    /\ charging_active = FALSE
    /\ charging_session_start = None
    /\ all_stored_plan_options = <<>>

C2_CloseAlwaysClears ==
    (transition = "close" /\ (pc \in {"toggle_relay", "read"} \/ Aborted)) => SessionCleared

\* C3 (as claimed): an accepted credential handled while IDLE always completes
\* the opening transition: no error ends it, and when the loop is back at the
\* reader the session is ACTIVE with a start time and the relay is on.
C3_OpenAlwaysCompletes ==
    transition = "open" =>
        /\ ~Aborted
        /\ pc = "read" => (charging_active /\ charging_session_start # None /\ relay = "HIGH")

\* C4: each time the main loop is back at the reader, the relay is on exactly
\* when a session is ACTIVE.
C4_RelayFollowsSession ==
    pc = "read" => ((relay = "HIGH") <=> charging_active)

\* C4 witness: a closing transition has ended with the relay written low
C4_Witness ==
    /\ pc = "read"
    /\ transition = "close"
    /\ trace # <<>>
    /\ Last(trace) = "relay"
    /\ relay = "LOW"
    /\ ~charging_active

\* C5: once the process has left the main loop, the relay is not in the
\* power-on state.
C5_ExitLeavesRelayOff ==
    pc = "exited" => relay # "HIGH"

\* C5 witness: the loop was left while a session was ACTIVE, after toggle_relay
\* had switched the relay on
C5_Witness ==
    /\ pc = "exited"
    /\ charging_active
    /\ transition = "open"
    /\ trace # <<>>
    /\ Last(trace) = "relay"

\* the steps of a closing transition, in the order the claim gives
CloseOrder ==
    <<"end_time", "emit_charging_finished", "cost", "usage", "billing", "cleared", "relay">>

Position(step) == CHOOSE k \in 1..Len(CloseOrder) : CloseOrder[k] = step

\* C6 (as claimed): a closing transition that has ended took its steps in the
\* order end time, charging_finished, cost, usage, billing run, cleared, relay
\* cut, ending with the session cleared and the relay cut, and triggered the
\* billing run only after a successful usage creation.
C6_CloseStepsInOrder ==
    (transition = "close" /\ HandlingEnded) =>
        /\ Range(trace) \subseteq Range(CloseOrder)
        /\ \A i, j \in 1..Len(trace) : i < j => Position(trace[i]) < Position(trace[j])
        /\ {"end_time", "emit_charging_finished", "cleared", "relay"} \subseteq Range(trace)
        /\ "billing" \in Range(trace) => ("usage" \in Range(trace) /\ usage_success)

\* C7 (as claimed): every completed IDLE to ACTIVE transition has emitted a
\* charging_started event.
C7_OpenEmitsChargingStarted ==
    (transition = "open" /\ pc \in {"toggle_relay", "read"}) =>
        "emit_charging_started" \in Range(trace)

\* C8 (as claimed): when the dispatch of charging_finished failed, the closing
\* transition still runs to the end: no error ends it, the session is cleared
\* and the relay is cut by toggle_relay.
C8_DispatchFailureDoesNotBlockClose ==
    (transition = "close" /\ emit_failed /\ HandlingEnded) =>
        /\ ~Aborted
        /\ SessionCleared
        /\ {"cleared", "relay"} \subseteq Range(trace)
        /\ relay = "LOW"

\* C9 (as claimed): for every tiered plan and duration, the controller's
\* plan-cost function returns what pricing_calculator.calculate_single_plan_cost
\* returns, the Tiered Cost Calculator's result for the converted duration.
C9_ControllerMatchesCalculator ==
    (/\ p_op = "plan"
     /\ "priceTiers" \in p_plan.keys
     /\ "pricingGroups" \notin p_plan.keys
     /\ p_cost_controller # None
     /\ p_cost_pricing # None) =>
        /\ p_cost_controller = p_cost_pricing
        /\ p_cost_controller =
               calculate_tiered_cost(
                   DurationUnits(Get(p_plan, "quantityType", "SECOND"), p_end - p_start),
                   p_plan.priceTiers)

\* C10: for the tiers [(5, 0.0), (1, 0.01)] calculate_tiered_cost returns 0.00
\* for 3 units, 0.00 for 5, 0.02 for 7, 0.05 for 10 and 0.10 for 15, and in
\* general one cent for every unit beyond the first five.
C10_TieredExample ==
    (p_op = "tiered" /\ p_tiers = ExampleTiers /\ p_cost_tiered # None) =>
        /\ p_units = Num(3) => p_cost_tiered = Num(0)
        /\ p_units = Num(5) => p_cost_tiered = Num(0)
        /\ p_units = Num(7) => p_cost_tiered = Num(2)
        /\ p_units = Num(10) => p_cost_tiered = Num(5)
        /\ p_units = Num(15) => p_cost_tiered = Num(10)
        /\ p_cost_tiered = IF p_units > Num(5) THEN (p_units - Num(5)) * 1 ELSE 0

\* C10 witness: the example tiers applied to 15 units gave 0.10
C10_Witness ==
    /\ p_op = "tiered"
    /\ p_tiers = ExampleTiers
    /\ p_units = Num(15)
    /\ p_cost_tiered = Num(10)

Max(a, b) == IF a >= b THEN a ELSE b

\* the sum of the quantities of the tiers before tier i
RECURSIVE QuantityBefore(_, _)
QuantityBefore(tiers, i) ==
    IF i <= 1 THEN 0 ELSE QuantityBefore(tiers, i - 1) + tiers[i - 1].quantity

\* the units tier i receives when the tiers are filled in list order
UnitsInTier(units, tiers, i) ==
    Min(Max(units - QuantityBefore(tiers, i), 0), tiers[i].quantity)

\* the cost of the first i tiers, each at its own price
RECURSIVE TierSum(_, _, _)
TierSum(units, tiers, i) ==
    IF i = 0 THEN 0
    ELSE TierSum(units, tiers, i - 1) + UnitsInTier(units, tiers, i) * tiers[i].price

\* the cost of the first i tiers when each is filled
RECURSIVE FullTierSum(_, _)
FullTierSum(tiers, i) ==
    IF i = 0 THEN 0 ELSE FullTierSum(tiers, i - 1) + tiers[i].quantity * tiers[i].price

\* C11: for a non-empty tier list, calculate_tiered_cost fills the tiers in
\* list order, min(remaining, quantity) units per tier at that tier's price,
\* and bills the units beyond the sum S of the quantities at the last tier's
\* price: beyond S the result is sum(quantity_i * price_i) + (units - S) * price_last.
C11_TiersInOrderThenLastPrice ==
    (p_op = "tiered" /\ p_tiers # <<>> /\ p_cost_tiered # None) =>
        LET n == Len(p_tiers)
            S == QuantityBefore(p_tiers, n + 1)
        IN  /\ p_cost_tiered = TierSum(p_units, p_tiers, n)
                                + Max(p_units - S, 0) * p_tiers[n].price
            /\ p_units > S =>
                   p_cost_tiered = FullTierSum(p_tiers, n) + (p_units - S) * p_tiers[n].price

\* C11 witness: three tiers of 2, 4 and 1 units applied to 9 units, two
\* more than the tiers hold: 2*3 + 4*1 + 1*5 + 2*5 cents
C11_Witness ==
    /\ p_op = "tiered"
    /\ p_tiers = <<Tier(2, 3), Tier(4, 1), Tier(1, 5)>>
    /\ p_units = Num(9)
    /\ p_cost_tiered = Num(25)

\* the unit counts the monotonicity is compared on: every half unit
HalfUnits == {k * (Denominator \div 2) : k \in 0..(2 * MaxUnits)}

\* C12: for a non-empty tier list and units a <= b with a >= 0,
\* calculate_tiered_cost(a, tiers) <= calculate_tiered_cost(b, tiers).
C12_TieredCostMonotone ==
    (p_op = "tiered" /\ p_tiers # <<>> /\ p_cost_tiered # None) =>
        \A u \in HalfUnits :
            /\ u <= p_units => calculate_tiered_cost(u, p_tiers) <= p_cost_tiered
            /\ p_units <= u => p_cost_tiered <= calculate_tiered_cost(u, p_tiers)

\* C12 witness: a list whose second tier is cheaper than its first, at the
\* end of the first tier
C12_Witness ==
    /\ p_op = "tiered"
    /\ p_tiers = <<Tier(5, 2), Tier(5, 0)>>
    /\ p_units = Num(5)
    /\ p_cost_tiered = Num(10)

MinutesPerDay == 24 * 60

\* the minutes since midnight of a wall-clock string
MinuteOf(hms) == hms[1] * 60 + hms[2]

\* a rule covers a minute of the day when, going round the clock from the
\* rule's start, the minute comes before the rule's end: [start, end) when
\* start <= end, and [start, midnight) with [midnight, end) when start > end
InBand(rule, minute) ==
    (minute - MinuteOf(rule.start)) % MinutesPerDay
        < (MinuteOf(rule.end) - MinuteOf(rule.start)) % MinutesPerDay

\* the rules of a list whose band covers a minute of the day
Covering(rules, minute) == {i \in 1..Len(rules) : InBand(rules[i], minute)}

\* the amount of the first covering rule in list order, 0 when there is none
FirstBandAmount(rules, minute) ==
    IF Covering(rules, minute) = {} THEN 0
    ELSE rules[CHOOSE i \in Covering(rules, minute) :
                   \A j \in Covering(rules, minute) : i <= j].amount

OvernightRules == <<Rule(HMS(22, 0, 0), HMS(8, 0, 0), 4)>>

\* C13: a rule with start <= end matches an instant exactly when
\* start <= instant < end, a rule with start > end exactly when
\* instant >= start or instant < end, in minutes since midnight, both where
\* get_current_time_based_pricing resolves the rate and where
\* calculate_single_plan_cost tests a rule; the rule 22:00-08:00 matches 23:30
\* and 02:00 but not 10:00, and [08:00-22:00 at 0.10, 22:00-08:00 at 0.0]
\* resolves to 0.10 at 09:00 and to 0.0 at 23:00.
C13_RuleMatchesBand ==
    (p_op = "plan" /\ "pricingGroups" \in p_plan.keys) =>
        LET rules  == p_plan.pricingRules
            minute == (p_start \div SecondsPerMinute) % MinutesPerDay
        IN  /\ p_cost_pricing # None =>
                   \A i \in 1..Len(rules) :
                       RuleMatches(rules[i], minute) <=> InBand(rules[i], minute)
            /\ p_resolved # NotResolved =>
                   /\ (p_resolved = NoPricing) <=> (Covering(rules, minute) = {})
                   /\ p_resolved # NoPricing =>
                          p_resolved.amount = FirstBandAmount(rules, minute)
                   /\ (rules = OvernightRules /\ p_start \in {At(23, 30, 0), At(2, 0, 0)}) =>
                          p_resolved.amount = 4
                   /\ (rules = OvernightRules /\ p_start = At(10, 0, 0)) =>
                          p_resolved = NoPricing
                   /\ (rules = ExampleRules /\ p_start = At(9, 0, 0)) =>
                          p_resolved.amount = 10
                   /\ (rules = ExampleRules /\ p_start = At(23, 0, 0)) =>
                          p_resolved.amount = 0

\* C13 witness: the overnight rule 22:00-08:00 resolved at 02:00, after midnight
C13_Witness ==
    /\ p_op = "plan"
    /\ "pricingGroups" \in p_plan.keys
    /\ p_plan.pricingRules = OvernightRules
    /\ p_start = At(2, 0, 0)
    /\ p_resolved # NotResolved
    /\ p_resolved.amount = 4
    /\ p_cost_pricing # None

\* the quantity type as the plan cost functions read it: upper-cased, and
\* MINUTE (time-banded) or SECOND (tiered) when the plan carries none
QuantityTypeRead(plan, default) ==
    IF "quantityType" \notin plan.keys THEN default
    ELSE CASE plan.quantityType \in {"SECOND", "second"} -> "SECOND"
           [] plan.quantityType \in {"MINUTE", "minute"} -> "MINUTE"
           [] plan.quantityType \in {"HOUR", "hour"}     -> "HOUR"
           [] OTHER                                      -> plan.quantityType

\* seconds as units: raw for SECOND, /60 for MINUTE, /3600 for HOUR, raw otherwise
UnitsOf(quantity_type, seconds) ==
    CASE quantity_type = "MINUTE" -> (seconds * Denominator) \div 60
      [] quantity_type = "HOUR"   -> (seconds * Denominator) \div 3600
      [] OTHER                    -> seconds * Denominator

\* C14: for a time-banded plan the cost is the session duration in the
\* plan's unit times the amount of the first rule, in list order, that matches
\* the time of day of the session start; the end time enters through the
\* duration only, and the cost is 0 when no rule matches.  MINUTE, 08:00:00 to
\* 08:10:00 at 0.10 gives 1.00; 21:59:30 to 22:04:30 is billed at the day rate.
C14_BandedCostAtStartRate ==
    (p_op = "plan" /\ "pricingGroups" \in p_plan.keys /\ p_cost_pricing # None) =>
        LET rules  == p_plan.pricingRules
            minute == (p_start \div SecondsPerMinute) % MinutesPerDay
            units  == UnitsOf(QuantityTypeRead(p_plan, "MINUTE"), p_end - p_start)
        IN  /\ p_cost_pricing = units * FirstBandAmount(rules, minute)
            /\ Covering(rules, minute) = {} => p_cost_pricing = 0
            /\ (rules = ExampleRules /\ QuantityTypeRead(p_plan, "MINUTE") = "MINUTE") =>
                   /\ (p_start = At(8, 0, 0) /\ p_end = At(8, 10, 0)) =>
                          p_cost_pricing = Num(100)
                   /\ (p_start = At(21, 59, 30) /\ p_end = At(22, 4, 30)) =>
                          p_cost_pricing = Num(50)

\* C14 witness: two overlapping bands, 00:00-12:00 at 0.05 before 08:00-22:00
\* at 0.10, a session of ten minutes from 09:00: the first one prices it
C14_Witness ==
    /\ p_op = "plan"
    /\ "pricingGroups" \in p_plan.keys
    /\ p_plan.pricingRules =
           <<Rule(HMS(0, 0, 0), HMS(12, 0, 0), 5), Rule(HMS(8, 0, 0), HMS(22, 0, 0), 10)>>
    /\ p_plan.quantityType = "MINUTE"
    /\ "quantityType" \in p_plan.keys
    /\ p_start = At(9, 0, 0)
    /\ p_end = At(9, 10, 0)
    /\ p_cost_pricing = Num(50)

\* the plan cost for a number of units: the banded rate, or the tiers filled
\* in order with the rest at the last tier's price
CostOfUnits(plan, start, units) ==
    IF "pricingGroups" \in plan.keys
    THEN units * FirstBandAmount(plan.pricingRules,
                                 (start \div SecondsPerMinute) % MinutesPerDay)
    ELSE IF plan.priceTiers = <<>> THEN 0
    ELSE LET n == Len(plan.priceTiers)
         IN  TierSum(units, plan.priceTiers, n)
             + Max(units - QuantityBefore(plan.priceTiers, n + 1), 0) * plan.priceTiers[n].price

\* a plan of one of the two shapes that carries a quantity type
HasShapeAndType(plan) ==
    /\ "quantityType" \in plan.keys
    /\ ("pricingGroups" \in plan.keys \/ "priceTiers" \in plan.keys)

ParkingName == <<"P","a","r","k","i","n","g">>

\* the entries of a plan list whose option is called by a given name
Named(all, option_name) ==
    {i \in 1..Len(all) : "optionName" \in all[i][2].keys /\ all[i][2].optionName = option_name}

\* a list of options called Blocking-Time, Charging-Time or Parking
PlainlyNamed(all) ==
    \A i \in 1..Len(all) :
        /\ "optionName" \in all[i][2].keys
        /\ all[i][2].optionName \in {BlockingName, ChargingName, ParkingName}

\* C16: the total cost of a session is the blocking plan's cost plus the
\* charging plan's cost, each as the module's calculate_single_plan_cost gives
\* it; a plan that is neither contributes nothing and a missing class
\* contributes 0.  A blocking cost of 1.00 and a charging cost of 0.05 give 1.05.
C16_TotalIsBlockingPlusCharging ==
    (p_op = "total" /\ PlainlyNamed(p_all)) =>
        LET blocking == Named(p_all, BlockingName)
            charging == Named(p_all, ChargingName)
            Plan(class) == p_all[CHOOSE i \in class : TRUE][2]
        IN  /\ p_total_pricing # None =>
                   /\ p_total_pricing =
                          (IF blocking = {} THEN 0
                           ELSE pricing_calculate_single_plan_cost(p_start, p_end, Plan(blocking)))
                          + (IF charging = {} THEN 0
                             ELSE pricing_calculate_single_plan_cost(p_start, p_end, Plan(charging)))
                   /\ (blocking # {} /\ charging # {}
                       /\ p_start = At(8, 0, 0) /\ p_end = At(8, 10, 0)) =>
                          p_total_pricing = Num(100) + Num(5)
            /\ p_total_controller # None =>
                   p_total_controller =
                       (IF blocking = {} THEN 0
                        ELSE calculate_single_plan_cost(p_start, p_end, Plan(blocking)))
                       + (IF charging = {} THEN 0
                          ELSE calculate_single_plan_cost(p_start, p_end, Plan(charging)))

\* C16 witness: a blocking fee, a charging fee and an option that is neither,
\* ten minutes from 08:00: 1.00 + 0.05
C16_Witness ==
    /\ p_op = "total"
    /\ PlainlyNamed(p_all)
    /\ Len(p_all) = 3
    /\ p_start = At(8, 0, 0)
    /\ p_end = At(8, 10, 0)
    /\ p_total_pricing = Num(105)
    /\ p_total_controller # None

\* the entries whose name or option-name contains a keyword, in any case
Mentioning(all, keyword) ==
    {i \in 1..Len(all) :
        \/ Contains(lower(Get(all[i][2], "optionName", <<>>)), keyword)
        \/ Contains(lower(Get(all[i][2], "name", <<>>)), keyword)}

\* C17 (as claimed): the aggregator takes as the blocking fee the plan whose
\* name or option-name contains "block" and as the charging fee the one that
\* contains "charging", in any case, and display_sequential_pricing selects
\* the same plan for each class.
C17_AggregatorAndDisplayAgree ==
    LET blocking == Mentioning(p_all, <<"b","l","o","c","k">>)
        charging == Mentioning(p_all, <<"c","h","a","r","g","i","n","g">>) \ blocking
        Entry(class) == p_all[CHOOSE i \in class : TRUE]
    IN  (/\ p_op = "total"
         /\ Cardinality(blocking) <= 1
         /\ Cardinality(charging) <= 1
         /\ p_total_pricing # None
         /\ p_display # NotSelected) =>
            /\ p_display[1] = IF blocking = {} THEN NoOption ELSE Entry(blocking)
            /\ p_display[2] = IF charging = {} THEN NoOption ELSE Entry(charging)
            /\ p_total_pricing =
                   (IF blocking = {} THEN 0
                    ELSE pricing_calculate_single_plan_cost(p_start, p_end, Entry(blocking)[2]))
                   + (IF charging = {} THEN 0
                      ELSE pricing_calculate_single_plan_cost(p_start, p_end, Entry(charging)[2]))

\* the plan options the backend holds for the k-th option identifier
FetchResult(k) == ContractOptions[((k - 1) % Len(ContractOptions)) + 1]

\* the identifiers whose fetch succeeds, by their place in option_idents
Succeeding == {k \in 1..Len(f_option_idents) : f_option_idents[k] \notin f_failing}

\* the successful fetch results, in the order of option_idents
RECURSIVE SuccessList(_)
SuccessList(k) ==
    IF k = 0 THEN <<>>
    ELSE IF k \in Succeeding
         THEN Append(SuccessList(k - 1), <<f_option_idents[k], FetchResult(k)>>)
         ELSE SuccessList(k - 1)

C20_AtMostFiveFetchesRunning ==
    Cardinality(Futures("running")) <= 5

\* C20 witness: five jobs run while a sixth waits in the executor's queue
C20_Witness ==
    /\ Cardinality(Futures("running")) = 5
    /\ Futures("queued") # {}
    /\ Len(f_option_idents) > 5

-----------------------------------------------------------------------------
(* C21..C30 *)

\* C21: the plan options of a session are written once, when the session is
\* opened (line 546, after every result was collected), and stay as they are
\* until the close clears them; the close computes its total from the very
\* list that was collected at the start.
C21_PlanOptionsWrittenOnce ==
    [][ /\ f_stored' # f_stored =>
              \/ f_pc = "collect" /\ f_pc' = "stored" /\ f_stored = <<>>
              \/ f_pc' = "cleared" /\ f_stored' = <<>>
        /\ (f_pc # "closed" /\ f_pc' = "closed") =>
              /\ f_stored' = f_stored
              /\ f_stored = f_all_plan_options ]_vars

\* a close computed its total from the several plan options stored at the start
C21_Witness ==
    /\ f_pc = "closed"
    /\ Len(f_stored) >= 2
    /\ f_stored = f_all_plan_options
    /\ f_total # NotComputed

\* C22: a session that was opened without plan options (every session of the
\* controller, whose stored list is empty at each close) is closed with a cost
\* of 0 on the display, and its close completes: the handling returns to the
\* reader with the session cleared and the relay cut.
C22_NoPlanOptionsCostZeroCloseCompletes ==
    (transition = "close" /\ HandlingEnded) =>
        /\ ~Aborted
        /\ SessionCleared
        /\ relay = "LOW"
        /\ display => cost = 0

\* the part of C22 about the cost alone: once the close is past lines 442-454
\* the cost shown is 0
C22_CostZero ==
    (transition = "close" /\ display /\ pc \in {"report", "create_usage", "toggle_relay"})
        => (all_stored_plan_options = <<>> /\ cost = 0)

\* C23: no cost is negative: neither the cost of a single plan nor the total,
\* in either module, whatever two readings of the controller's clock bound the
\* session and whatever plans with non-negative amounts and prices are billed.
C23_CostNeverNegative ==
    /\ p_cost_tiered # None => p_cost_tiered >= 0
    /\ p_cost_pricing # None => p_cost_pricing >= 0
    /\ p_cost_controller # None => p_cost_controller >= 0
    /\ p_total_pricing # None => p_total_pricing >= 0
    /\ p_total_controller # None => p_total_controller >= 0

\* the part of C23 that holds: with the end not before the start no cost is
\* negative
C23_CostNotNegativeForwardClock ==
    p_end >= p_start => C23_CostNeverNegative

\* C24: the relay is written by the main loop only, in toggle_relay as the last
\* step of an open or close transition (and released by GPIO.cleanup when the
\* loop is left); the step that runs the handlers of charging_finished writes
\* neither the relay nor the session variables.
C24_RelayWrittenLastByMainLoop ==
    [][ /\ relay' # relay =>
              \/ /\ pc = "toggle_relay"
                 /\ pc' = "read"
                 /\ transition \in {"open", "close"}
                 /\ relay' = (IF charging_active THEN "HIGH" ELSE "LOW")
              \/ pc' = "exited"
        /\ (pc = "emit_finished" /\ pc' = "cost") =>
              UNCHANGED <<relay, charging_active, charging_session_start,
                          all_stored_plan_options>> ]_vars

\* a close ran the handlers of charging_finished and cut the relay as its last
\* step
C24_Witness ==
    /\ pc = "read"
    /\ transition = "close"
    /\ Len(trace) >= 2
    /\ "emit_charging_finished" \in Range(trace)
    /\ Last(trace) = "relay"
    /\ relay = "LOW"

\* the tags of rfid_mapping.py that map to a customer
MappedTags == {"316922528399", "868383524177", "572221031092"}

SessionAndRelay ==
    <<charging_active, charging_session_start, all_stored_plan_options, relay>>

\* C25: the session state and the relay change only while a credential that
\* maps to a customer is handled (or when the loop is left and the pin is
\* released): a step that stays at the reader, which is a failed read, a
\* debounced read, a tag without customer or the passage of time, leaves them
\* as they are, and an active session stays active until a credential is
\* accepted.
C25_OnlyAcceptedCredentialChangesSession ==
    [][ /\ SessionAndRelay' # SessionAndRelay =>
              \/ pc' = "exited"
              \/ /\ pc \notin {"read", "exited"}
                 /\ last_tag_id \in MappedTags
                 /\ customer_info # NoCustomer
        /\ (pc = "read" /\ pc' = "read") => SessionAndRelay' = SessionAndRelay
        /\ (charging_active /\ ~charging_active') =>
              (transition = "close" /\ last_tag_id \in MappedTags) ]_vars

\* a tag without customer was processed during an active session, which is
\* still active and powered
C25_Witness ==
    /\ pc = "read"
    /\ charging_active
    /\ relay = "HIGH"
    /\ last_tag_id \notin MappedTags \cup {NoTag}
    /\ last_read_time > charging_session_start

\* the reader processed a tag in this step
Processed ==
    /\ pc = "read"
    /\ \/ pc' = "set_charging_state"
       \/ last_read_time' # last_read_time
       \/ last_tag_id' # last_tag_id

\* C26: a tag equal to the last processed one is processed only when at least
\* DEBOUNCE_TIME (2 s) passed since that processed read, a different tag is
\* processed at once; so the tag that opened a session and stays on the reader
\* does not close it before the debounce time is over.
C26_Debounce ==
    [][ /\ Processed => (last_tag_id' # last_tag_id \/ now' - last_read_time >= 2)
        /\ Processed => (last_tag_id' # NoTag /\ last_read_time' = now')
        /\ \A tag_id \in Tags, t \in now..MaxTime :
              should_process_tag(tag_id, t)
                  <=> (tag_id # last_tag_id \/ t - last_read_time >= 2)
        /\ (Processed /\ pc' = "set_charging_state" /\ charging_active
               /\ last_tag_id' = last_tag_id) =>
              now' - charging_session_start >= 2 ]_vars

\* a second after its tag opened the session the reader was read again and
\* the session is still open: the tag was not processed inside the window
C26_Witness ==
    /\ pc = "read"
    /\ charging_active
    /\ relay = "HIGH"
    /\ last_tag_id \in MappedTags
    /\ last_read_time = charging_session_start
    /\ now = last_read_time + 1

\* the files of DOWNLOAD_DIR that hold a document
FilesOf(doc_ident) == {p \in d_files : p.document_ident = doc_ident}

\* C27: the download service saves a document only when no file of its ident
\* is present, so DOWNLOAD_DIR never holds more than one file of a document,
\* also while several background tasks of /download requests run at once.
C27_EachDocumentSavedOnce ==
    \A doc_ident \in Documents : Cardinality(FilesOf(doc_ident)) <= 1

\* C28: a close that obtains no bearer token sends neither a usage record nor
\* a billing run; the session is cleared all the same and the relay is cut
\* when the handling is over, and with its start time gone the session cannot
\* be reported by a later step.
C28_NoTokenCloseClearsUnreported ==
    (transition = "close" /\ bearer_token = "none") =>
        /\ "usage" \notin Range(trace)
        /\ "billing" \notin Range(trace)
        /\ usage_record = NoRecord
        /\ ~usage_success
        /\ SessionCleared
        /\ openSessions = 0
        /\ pc \in {"toggle_relay", "read", "exited"}
        /\ pc = "read" => (relay = "LOW" /\ Last(trace) = "relay")
        /\ pc = "exited" => exit_cause = "KeyboardInterrupt"

\* a close without bearer token is over: cleared, relay cut, nothing sent
C28_Witness ==
    /\ transition = "close"
    /\ bearer_token = "none"
    /\ pc = "read"
    /\ relay = "LOW"
    /\ "cleared" \in Range(trace)
    /\ charging_end_time # None

\* C29: the usage record and the billing run a close sends carry the tag and
\* the customer of the credential that closes the session, whoever opened it:
\* when the handling of a close that obtained a bearer token is over, the
\* backend has received the usage of the closing credential.
C29_UsageCarriesClosingCredential ==
    (transition = "close" /\ bearer_token = "token" /\ HandlingEnded) =>
        /\ usage_record # NoRecord
        /\ usage_record.tag_id = last_tag_id
        /\ usage_record.customer_info = RFID_TAG_MAPPING[last_tag_id]
        /\ usage_record.charging_end_time = charging_end_time

\* the part of C29 about the identity alone: the arguments that line 471 hands
\* to create_nitrobox_usage are the tag and the customer of the closing read
C29_ArgumentsOfClosingCredential ==
    (pc = "create_usage" /\ transition = "close") =>
        LET arguments == UsageArguments(last_tag_id, charging_session_start,
                                        charging_end_time, customer_info)
        IN  /\ arguments.tag_id \in MappedTags
            /\ arguments.customer_info = RFID_TAG_MAPPING[arguments.tag_id]
            /\ last_read_time = charging_end_time

\* the class the aggregator gives a plan: blocking when its option name holds
\* "blocking", else charging when it holds "charging", in any case of letters
ClassOf(plan_options) ==
    LET option_name == lower(Get(plan_options, "optionName", <<>>))
    IN  IF Contains(option_name, <<"b","l","o","c","k","i","n","g">>) THEN "blocking"
        ELSE IF Contains(option_name, <<"c","h","a","r","g","i","n","g">>) THEN "charging"
        ELSE "other"

\* the places of a list that hold a plan of a class
OfClass(all, class) == {i \in 1..Len(all) : ClassOf(all[i][2]) = class}

\* the last place of a non-empty set of places
LastPlace(places) == CHOOSE i \in places : \A j \in places : j <= i

\* C30: when a plan list holds several plans of a class, the cost of the class
\* is the cost of the last of them in list order, not their sum; a plan whose
\* option name holds both "blocking" and "charging" counts as a blocking plan
\* only.  In both modules.
C30_LastPlanOfClassWins ==
    (p_op = "total") =>
        LET blocking == OfClass(p_all, "blocking")
            charging == OfClass(p_all, "charging")
            last_blocking == p_all[LastPlace(blocking)][2]
            last_charging == p_all[LastPlace(charging)][2]
        IN  /\ p_total_pricing # None =>
                  p_total_pricing =
                      (IF blocking = {} THEN 0
                       ELSE pricing_calculate_single_plan_cost(p_start, p_end, last_blocking))
                      + (IF charging = {} THEN 0
                         ELSE pricing_calculate_single_plan_cost(p_start, p_end, last_charging))
            /\ p_total_controller # None =>
                  p_total_controller =
                      (IF blocking = {} THEN 0
                       ELSE calculate_single_plan_cost(p_start, p_end, last_blocking))
                      + (IF charging = {} THEN 0
                         ELSE calculate_single_plan_cost(p_start, p_end, last_charging))

\* Charging-Time, then Blocking-Time (0.10 per minute by day), then the plan
\* named Blocking-Charging (tiered, 0.03 per minute), ten minutes from 08:00:
\* the blocking cost is the 0.30 of the last blocking plan, which adds nothing
\* to the 0.05 of the charging plan
C30_Witness ==
    /\ p_op = "total"
    /\ Len(p_all) = 3
    /\ p_all[1][2].optionName = ChargingName
    /\ p_all[2][2].optionName = BlockingName
    /\ p_all[3][2].optionName =
           <<"B","l","o","c","k","i","n","g","-","C","h","a","r","g","i","n","g">>
    /\ p_start = At(8, 0, 0)
    /\ p_end = At(8, 10, 0)
    /\ p_total_pricing = Num(35)
    /\ p_total_controller # None

====
